---------------------------- MODULE Spec2Model ----------------------------
(***************************************************************************)
(* Conference Central (src/conference.py, src/models.py): the datastore    *)
(* entities Profile, Conference, Session, Speaker and Wishlist, conference *)
(* creation and update, the cross-group transaction                        *)
(* _conferenceRegistration, the filters of queryConferences, the           *)
(* intersection of two queries, the wishlists, and the featured speakers   *)
(* kept in memcache by tasks of the push queue.                            *)
(*                                                                         *)
(* The specifications share the variables:                                 *)
(*   Spec          requests run concurrently; _conferenceRegistration is   *)
(*                 an ndb transaction (optimistic: reads, body, and a      *)
(*                 commit that fails and is retried when an entity group   *)
(*                 it read was written meanwhile);                         *)
(*   SpecSeq       requests run one after the other, each handler to its   *)
(*                 end; the last LogLen calls are kept in `log`;           *)
(*   SpecScenario  as SpecSeq, every run of at most ScenarioLen calls      *)
(*                 from the empty datastore, all of them kept in `log`;    *)
(*   SpecRace      one register request per profile, all started against   *)
(*                 a conference with one seat left;                        *)
(*   SpecQuery     _getQuery applied to every list of up to MaxFilters     *)
(*                 filters;                                                *)
(*   SpecIntersect _intersectQueries applied to every two queries on       *)
(*                 Session over every store of up to MaxSessions sessions; *)
(*   SpecFeatured  createSession, addSpeakerToSession and                  *)
(*                 removeSpeakerFromSession, each followed by its tasks;   *)
(*   SpecPending   addSpeakerToSession and removeSpeakerFromSession while  *)
(*                 tasks wait, the queue running them in any order;        *)
(*   SpecRead      addSpeakerToSession and removeSpeakerFromSession, each  *)
(*                 followed by its tasks, with getFeaturedSpeaker calls    *)
(*                 and cached maps that expire;                            *)
(*   SpecUpdate    createConference, updateConference and the two          *)
(*                 registration calls, one after the other;                *)
(*   SpecFrame     the two registration calls on two conferences;          *)
(*   SpecWishlist  createWishlist, addSessionToWishlist and                *)
(*                 deleteSessionInWishlist, one after the other;           *)
(*   SpecJobs      runs of the featured-speaker task that overlap, each a  *)
(*                 cache read and a later cache write;                     *)
(*   SpecSpeakerRace  addSpeakerToSession and removeSpeakerFromSession     *)
(*                 requests that overlap, each a get and a later put;      *)
(*   SpecTwoMaps   as SpecFeatured without createSession, on two           *)
(*                 conferences of two sessions each.                       *)
(* Queries read the datastore as it is (no stale index); outside SpecRead  *)
(* a memcache entry stays until it is deleted (no expiry, no eviction).    *)
(***************************************************************************)
EXTENDS Integers, Sequences, FiniteSets, TLC

\* ------------------------------------------------------------------ bounds
NumProfiles == 3
NumOrganizers == 1
MaxConfsPerOrganizer == 1
MaxAttendees == 2
MaxRequests == 2
MaxClients == 2
LogLen == 2
ScenarioLen == 5
NumSpeakers == 2
MaxFilters == 3
NumSessionConfs == 2
MaxSessions == 3
MaxTasks == 4
MaxPending == 2

\* ndb.transactional's default: a failed commit is retried this many times
Retries == 3

Profiles == 1..NumProfiles
Organizers == 1..(IF NumOrganizers < NumProfiles THEN NumOrganizers ELSE NumProfiles)
\* a conference key holds its parent (the organizer's profile key) and an id
ConfKeys == Organizers \X (1..MaxConfsPerOrganizer)
Requests == 1..MaxRequests
\* the profiles whose clients send concurrent requests in Spec
Clients == 1..(IF MaxClients < NumProfiles THEN MaxClients ELSE NumProfiles)
Speakers == 1..NumSpeakers

\* the entity group of a key: the root of its path
Parent(wsck) == wsck[1]

\* an optional request field: {} is None, {n} is the value n
None == {}
Some(n) == {n}
ValueOf(x) == CHOOSE v \in x : TRUE
MaxAttendeesInputs == {None} \cup {Some(n) : n \in 0..MaxAttendees}
SeatsAvailableInputs == {None} \cup {Some(n) : n \in (-1)..(MaxAttendees + 1)}

\* ---------------------------------------------------------------- helpers
Contains(s, x) == \E i \in 1..Len(s) : s[i] = x
Count(s, x) == Cardinality({i \in 1..Len(s) : s[i] = x})
\* list.remove(x): drops the first occurrence
RemoveFirst(s, x) ==
  IF ~Contains(s, x) THEN s
  ELSE LET i == CHOOSE j \in 1..Len(s) : s[j] = x /\ \A k \in 1..(j-1) : s[k] # x
       IN SubSeq(s, 1, i-1) \o SubSeq(s, i+1, Len(s))

\* ------------------------------------------------------------------ state
VARIABLES
  profiles,      \* datastore: Profile entity of each user id
  conferences,   \* datastore: Conference entity of each conference key
  req,           \* concurrent requests: the position and locals of each
  log,           \* SpecSeq: the last LogLen calls and their outcomes
  sessions,      \* datastore: the Session entities, in the order of creation
  speakers,      \* datastore: Speaker entity of each speaker key
  memcache,      \* memcache: the value under each conference's featured key
  taskqueue,     \* push queue: the pending /tasks/set_featured_speakers tasks
  wishlists,     \* datastore: the Wishlist entities, in the order of creation
  call,          \* the last call of an endpoint or function, with its inputs
  outcome        \* what that call returned or raised

ledgerVars == <<profiles, conferences, req, log>>
speakerVars == <<sessions, speakers, memcache, taskqueue, wishlists>>
callVars == <<call, outcome>>

vars == <<profiles, conferences, req, log, sessions, speakers, memcache,
          taskqueue, wishlists, call, outcome>>

NoProfile == [exists |-> FALSE, conferenceKeysToAttend |-> <<>>]
NoConf ==
  [exists |-> FALSE, organizerUserId |-> 0, maxAttendees |-> 0,
   seatsAvailable |-> 0, startDate |-> None, month |-> 0]

IdleReq ==
  [pc |-> "idle", user |-> 0, wsck |-> <<0, 0>>, reg |-> TRUE, attempt |-> 0,
   readset |-> {}, stale |-> FALSE, confSnap |-> NoConf,
   prof |-> NoProfile, conf |-> NoConf, retval |-> "None", result |-> "None"]

\* profiles registered for a conference in the store
Attendees(wsck) ==
  {p \in Profiles : Contains(profiles[p].conferenceKeysToAttend, wsck)}


\* --------------------------------------------------- the handlers' code
\* DEFAULTS["maxAttendees"] and DEFAULTS["seatsAvailable"]
DefaultMaxAttendees == 0
DefaultSeatsAvailable == 0

\* _getProfileFromUser: the stored profile, or a new one (put) when there is none
getProfileFromUser(stored) ==
  IF stored.exists THEN stored
  ELSE [exists |-> TRUE, conferenceKeysToAttend |-> <<>>]

\* _createConferenceObject: the entity put for a request (name checked by the caller);
\* the defaults fill a missing maxAttendees and seatsAvailable first, then
\* seatsAvailable is set to maxAttendees only if it is still missing
\* a date string "YYYY-MM-DD" is written <<YYYY, MM, DD>>; strptime(...).date()
\* gives the date, and None stands for the ValueError of an impossible date
strptime(text) ==
  IF text[2] \in 1..12 /\ text[3] \in 1..31
  THEN Some([year |-> text[1], month |-> text[2], day |-> text[3]])
  ELSE None

ValidDate(text) == text = None \/ strptime(ValueOf(text)) # None

createConferenceObject(user, request) ==
  LET maxA == IF request.maxAttendees = None THEN Some(DefaultMaxAttendees)
              ELSE request.maxAttendees
      seats == IF request.seatsAvailable = None THEN Some(DefaultSeatsAvailable)
               ELSE request.seatsAvailable
      seats2 == IF seats = None /\ ValueOf(maxA) > 0 THEN maxA ELSE seats
      startDate == IF request.startDate = None THEN None
                   ELSE strptime(ValueOf(request.startDate))
  IN [exists |-> TRUE, organizerUserId |-> user,
      maxAttendees |-> ValueOf(maxA), seatsAvailable |-> ValueOf(seats2),
      startDate |-> startDate,
      month |-> IF startDate # None THEN ValueOf(startDate).month ELSE 0]

\* Conference.allocate_ids(size=1, parent=prof_key): the next unused id
AllocatedIds(user) == {i \in 1..MaxConfsPerOrganizer : conferences[<<user, i>>].exists}
CanAllocate(user) == user \in Organizers /\ AllocatedIds(user) # 1..MaxConfsPerOrganizer
AllocateId(user) == CHOOSE i \in 1..MaxConfsPerOrganizer : i \notin AllocatedIds(user)
                         /\ \A j \in 1..(i-1) : j \in AllocatedIds(user)

\* mutants of the membership test: always true, always false
IsRegistered_always(prof, wsck) == TRUE
IsRegistered_never(prof, wsck) == FALSE

\* `wsck in prof.conferenceKeysToAttend`
IsRegistered(prof, wsck) == Contains(prof.conferenceKeysToAttend, wsck)

\* mutants of the seat check: `< 0` for `<= 0`, and the check left out
NoSeatsAvailable_strict(conf) == conf.seatsAvailable < 0
NoSeatsAvailable_omitted(conf) == FALSE

\* `conf.seatsAvailable <= 0`
NoSeatsAvailable(conf) == conf.seatsAvailable <= 0

\* mutant of the registration: the seat is not taken away
RegisterUser_keepsSeat(prof, conf, wsck) ==
  [prof |-> [prof EXCEPT !.conferenceKeysToAttend = Append(@, wsck)],
   conf |-> conf]

\* mutant of the registration: the capacity shrinks with the seats
RegisterUser_takesCapacity(prof, conf, wsck) ==
  [prof |-> [prof EXCEPT !.conferenceKeysToAttend = Append(@, wsck)],
   conf |-> [conf EXCEPT !.seatsAvailable = @ - 1, !.maxAttendees = @ - 1]]

\* register user, take away one seat
RegisterUser(prof, conf, wsck) ==
  [prof |-> [prof EXCEPT !.conferenceKeysToAttend = Append(@, wsck)],
   conf |-> [conf EXCEPT !.seatsAvailable = @ - 1]]

\* mutants of the unregistration: the seat is not added back; the key is
\* not removed
UnregisterUser_keepsSeat(prof, conf, wsck) ==
  [prof |-> [prof EXCEPT !.conferenceKeysToAttend = RemoveFirst(@, wsck)],
   conf |-> conf]
UnregisterUser_keepsKey(prof, conf, wsck) ==
  [prof |-> prof,
   conf |-> [conf EXCEPT !.seatsAvailable = @ + 1]]

\* unregister user, add back one seat
UnregisterUser(prof, conf, wsck) ==
  [prof |-> [prof EXCEPT !.conferenceKeysToAttend = RemoveFirst(@, wsck)],
   conf |-> [conf EXCEPT !.seatsAvailable = @ + 1]]

\* mutant of the body: the seat check comes before the already-registered check
conferenceRegistration_seatsFirst(prof, conf, wsck, reg) ==
  IF ~conf.exists
  THEN [raised |-> "NotFound", retval |-> "None", prof |-> prof, conf |-> conf]
  ELSE IF reg
  THEN IF NoSeatsAvailable(conf)
       THEN [raised |-> "NoSeats", retval |-> "None", prof |-> prof, conf |-> conf]
       ELSE IF IsRegistered(prof, wsck)
       THEN [raised |-> "AlreadyRegistered", retval |-> "None", prof |-> prof, conf |-> conf]
       ELSE LET w == RegisterUser(prof, conf, wsck)
            IN [raised |-> "", retval |-> "True", prof |-> w.prof, conf |-> w.conf]
  ELSE IF IsRegistered(prof, wsck)
       THEN LET w == UnregisterUser(prof, conf, wsck)
            IN [raised |-> "", retval |-> "True", prof |-> w.prof, conf |-> w.conf]
       ELSE [raised |-> "", retval |-> "False", prof |-> prof, conf |-> conf]

\* the body of _conferenceRegistration on the entities it read: what it raised
\* ("" when nothing), its return value, and the entities it puts
conferenceRegistration(prof, conf, wsck, reg) ==
  IF ~conf.exists
  THEN [raised |-> "NotFound", retval |-> "None", prof |-> prof, conf |-> conf]
  ELSE IF reg
  THEN IF IsRegistered(prof, wsck)
       THEN [raised |-> "AlreadyRegistered", retval |-> "None", prof |-> prof, conf |-> conf]
       ELSE IF NoSeatsAvailable(conf)
       THEN [raised |-> "NoSeats", retval |-> "None", prof |-> prof, conf |-> conf]
       ELSE LET w == RegisterUser(prof, conf, wsck)
            IN [raised |-> "", retval |-> "True", prof |-> w.prof, conf |-> w.conf]
  ELSE IF IsRegistered(prof, wsck)
       THEN LET w == UnregisterUser(prof, conf, wsck)
            IN [raised |-> "", retval |-> "True", prof |-> w.prof, conf |-> w.conf]
       ELSE [raised |-> "", retval |-> "False", prof |-> prof, conf |-> conf]

\* -------------------------------------------- SpecSeq: one call at a time
Store == [profiles |-> profiles, conferences |-> conferences]

\* the log keeps the last `keep` calls
Logged(entry, keep) ==
  LET l == Append(log, entry)
  IN IF Len(l) > keep THEN SubSeq(l, Len(l) - keep + 1, Len(l)) ELSE l

\* createConference, run to its end
createConference(user, request, keep) ==
  /\ CanAllocate(user)
  /\ LET key == <<user, AllocateId(user)>>
     IN IF ~request.name \/ ~ValidDate(request.startDate)
        THEN /\ UNCHANGED <<profiles, conferences>>
             /\ log' = Logged([op |-> "create", user |-> user, wsck |-> key,
                               result |-> IF ~request.name THEN "BadRequest"
                                          ELSE "ValueError",
                               before |-> Store], keep)
        ELSE /\ conferences' = [conferences EXCEPT ![key] = createConferenceObject(user, request)]
             /\ UNCHANGED profiles
             /\ log' = Logged([op |-> "create", user |-> user, wsck |-> key,
                               result |-> "Created", before |-> Store], keep)
  /\ UNCHANGED <<req, speakerVars, callVars>>

\* registerForConference (reg) or unregisterFromConference (~reg), run to its
\* end with no other request in between: the transaction commits what the body
\* put, or nothing when the body raised
callRegistration(user, wsck, reg, keep) ==
  LET out == conferenceRegistration(getProfileFromUser(profiles[user]),
                                    conferences[wsck], wsck, reg)
      entry == [op |-> IF reg THEN "register" ELSE "unregister", user |-> user,
                wsck |-> wsck,
                result |-> IF out.raised # "" THEN out.raised ELSE out.retval,
                before |-> Store]
  IN /\ IF out.raised # ""
        THEN UNCHANGED <<profiles, conferences>>
        ELSE /\ profiles' = [profiles EXCEPT ![user] = out.prof]
             /\ conferences' = [conferences EXCEPT ![wsck] = out.conf]
     /\ log' = Logged(entry, keep)
     /\ UNCHANGED <<req, speakerVars, callVars>>

registerForConference(user, wsck, keep) == callRegistration(user, wsck, TRUE, keep)

unregisterFromConference(user, wsck, keep) == callRegistration(user, wsck, FALSE, keep)

\* the requests of the registration ledger carry no dates
ConferenceRequests ==
  [name : BOOLEAN, maxAttendees : MaxAttendeesInputs,
   seatsAvailable : SeatsAvailableInputs, startDate : {None}, month : {None}]

\* a dict with no key
EmptyDict == [x \in {} |-> x]

NoSpeaker == [exists |-> FALSE, name |-> ""]
NoCall == [op |-> "none"]

\* no session, no speaker, nothing cached, no task pending
NoSessionsYet ==
  /\ sessions = <<>>
  /\ speakers = [s \in Speakers |-> NoSpeaker]
  /\ memcache = EmptyDict
  /\ taskqueue = <<>>
  /\ wishlists = <<>>

NoCallYet == call = NoCall /\ outcome = NoCall

Init ==
  /\ profiles = [p \in Profiles |-> NoProfile]
  /\ conferences = [k \in ConfKeys |-> NoConf]
  /\ req = [r \in Requests |-> IdleReq]
  /\ log = <<>>
  /\ NoSessionsYet
  /\ NoCallYet

NextSeq ==
  \/ \E u \in Profiles, rq \in ConferenceRequests : createConference(u, rq, LogLen)
  \/ \E u \in Profiles, k \in ConfKeys : registerForConference(u, k, LogLen)
  \/ \E u \in Profiles, k \in ConfKeys : unregisterFromConference(u, k, LogLen)

SpecSeq == Init /\ [][NextSeq]_vars


\* ------------------------------- Spec: concurrent requests, transactions
InTransaction(rq) == rq.pc \in {"getConf", "commit"}

\* a put to entity groups `groups` by request `self` invalidates every other
\* open transaction that has read one of them
Invalidate(self, groups) ==
  [r \in DOMAIN req |->
     IF r # self /\ InTransaction(req[r]) /\ req[r].readset \cap groups # {}
     THEN [req[r] EXCEPT !.stale = TRUE]
     ELSE req[r]]

\* a request that ended: only its outcome is kept
Ended(rq, result) ==
  [IdleReq EXCEPT !.pc = "done", !.result = result]

\* a (re)started attempt of the transaction
Attempt(user, wsck, reg, n) ==
  [IdleReq EXCEPT !.pc = "begin", !.user = user, !.wsck = wsck, !.reg = reg,
                  !.attempt = n]

\* mutant of the commit: no conflict is ever detected
CommitConflict_never(rq) == FALSE

\* the commit fails when an entity group the transaction read was written
\* after it was read
CommitConflict(rq) == rq.stale

\* a client sends registerForConference (reg) or unregisterFromConference
StartRegistration(r, user, wsck, reg) ==
  /\ req[r].pc \in {"idle", "done"}
  /\ req' = [req EXCEPT ![r] = Attempt(user, wsck, reg, 0)]
  /\ UNCHANGED <<profiles, conferences, log, speakerVars, callVars>>

\* prof = self._getProfileFromUser(): the first read of the transaction; it
\* fixes the snapshot of the user's entity group, which holds the user's own
\* conferences too
TxnGetProfile(r) ==
  /\ req[r].pc = "begin"
  /\ LET rq == req[r]
     IN req' = [req EXCEPT ![r] =
          [rq EXCEPT !.pc = "getConf",
                     !.prof = getProfileFromUser(profiles[rq.user]),
                     !.readset = {rq.user},
                     !.stale = FALSE,
                     !.confSnap = IF Parent(rq.wsck) = rq.user
                                  THEN conferences[rq.wsck] ELSE NoConf]]
  /\ UNCHANGED <<profiles, conferences, log, speakerVars, callVars>>

\* conf = ndb.Key(urlsafe=wsck).get() and the body up to the puts; an
\* exception of the body ends the request and rolls the transaction back
TxnGetConference(r) ==
  /\ req[r].pc = "getConf"
  /\ LET rq == req[r]
         confRead == IF Parent(rq.wsck) \in rq.readset
                     THEN rq.confSnap ELSE conferences[rq.wsck]
         out == conferenceRegistration(rq.prof, confRead, rq.wsck, rq.reg)
     IN req' = [req EXCEPT ![r] =
          IF out.raised # "" THEN Ended(rq, out.raised)
          ELSE [rq EXCEPT !.pc = "commit", !.prof = out.prof, !.conf = out.conf,
                          !.retval = out.retval,
                          !.readset = @ \cup {Parent(rq.wsck)}]]
  /\ UNCHANGED <<profiles, conferences, log, speakerVars, callVars>>

\* the commit at the return of the transactional function: both puts or, on a
\* conflict, none and another attempt, until the retries are used up
TxnCommit(r) ==
  /\ req[r].pc = "commit"
  /\ LET rq == req[r]
     IN IF CommitConflict(rq)
        THEN /\ req' = [req EXCEPT ![r] =
                  IF rq.attempt < Retries
                  THEN Attempt(rq.user, rq.wsck, rq.reg, rq.attempt + 1)
                  ELSE Ended(rq, "TransactionFailed")]
             /\ UNCHANGED <<profiles, conferences>>
        ELSE /\ profiles' = [profiles EXCEPT ![rq.user] = rq.prof]
             /\ conferences' = [conferences EXCEPT ![rq.wsck] = rq.conf]
             /\ req' = [Invalidate(r, {rq.user, Parent(rq.wsck)})
                          EXCEPT ![r] = Ended(rq, rq.retval)]
  /\ UNCHANGED <<log, speakerVars, callVars>>

\* createConference by a concurrent client: one put into the organizer's group
\* (a request without a name raises BadRequestException and puts nothing)
PutConference(user, request) ==
  /\ CanAllocate(user)
  /\ request.name
  /\ conferences' = [conferences EXCEPT ![<<user, AllocateId(user)>>] =
                        createConferenceObject(user, request)]
  /\ req' = Invalidate(0, {user})
  /\ UNCHANGED <<profiles, log, speakerVars, callVars>>

Next ==
  \/ \E u \in Clients, rq \in ConferenceRequests : PutConference(u, rq)
  \/ \E r \in DOMAIN req, u \in Clients, k \in ConfKeys, reg \in BOOLEAN :
        StartRegistration(r, u, k, reg)
  \/ \E r \in DOMAIN req : TxnGetProfile(r)
  \/ \E r \in DOMAIN req : TxnGetConference(r)
  \/ \E r \in DOMAIN req : TxnCommit(r)

Spec == Init /\ [][Next]_vars


\* ------------- SpecRace: one registration per profile, one seat left
ExistingProfile == [exists |-> TRUE, conferenceKeysToAttend |-> <<>>]

OneSeatLeft(k, m) ==
  [k2 \in ConfKeys |->
     IF k2 = k
     THEN [exists |-> TRUE, organizerUserId |-> Parent(k), maxAttendees |-> m,
           seatsAvailable |-> 1, startDate |-> None, month |-> 0]
     ELSE NoConf]

InitRace ==
  /\ conferences \in {OneSeatLeft(k, m) : k \in ConfKeys, m \in 1..MaxAttendees}
  /\ profiles \in [Profiles -> {NoProfile, ExistingProfile}]
  /\ req = [p \in Profiles |->
              Attempt(p, CHOOSE k \in ConfKeys : conferences[k].exists, TRUE, 0)]
  /\ log = <<>>
  /\ NoSessionsYet
  /\ NoCallYet

NextRace ==
  \/ \E r \in DOMAIN req : TxnGetProfile(r)
  \/ \E r \in DOMAIN req : TxnGetConference(r)
  \/ \E r \in DOMAIN req : TxnCommit(r)

SpecRace == InitRace /\ [][NextRace]_vars

\* ------- SpecScenario: every run of at most ScenarioLen calls, all logged
NextScenario ==
  \/ \E u \in Profiles, rq \in ConferenceRequests :
        Len(log) < ScenarioLen /\ createConference(u, rq, ScenarioLen)
  \/ \E u \in Profiles, k \in ConfKeys :
        Len(log) < ScenarioLen /\ registerForConference(u, k, ScenarioLen)
  \/ \E u \in Profiles, k \in ConfKeys :
        Len(log) < ScenarioLen /\ unregisterFromConference(u, k, ScenarioLen)

SpecScenario == Init /\ [][NextScenario]_vars


\* ---------------------------------- SpecQuery: the filters of a query
OPERATORS ==
  [EQ |-> "=", GT |-> ">", GTEQ |-> ">=", LT |-> "<", LTEQ |-> "<=", NE |-> "!="]

FIELDS ==
  [CITY |-> "city", TOPIC |-> "topics", MONTH |-> "month",
   MAX_ATTENDEES |-> "maxAttendees"]

\* an exception that ends the call
Raise(exception, message) == [raised |-> exception, message |-> message]

\* the field, operator and value strings a client may send: every field of
\* FIELDS and one that is none, some operators of OPERATORS and one that is
\* none; a value is a string, written as the sequence of its characters
FieldTokens == DOMAIN FIELDS \cup {"COLOR"}
OperatorTokens == {"EQ", "GT", "NE", "LIKE"}
ValueStrings == {<<"1", "2">>, <<"1", "x">>}
ConferenceQueryForm ==
  [field : FieldTokens, operator : OperatorTokens, value : ValueStrings]
ConferenceQueryForms ==
  UNION {[1..n -> ConferenceQueryForm] : n \in 0..MaxFilters}

\* int(value) of a string: blanks around, an optional sign, decimal digits
DigitValue ==
  ("0" :> 0) @@ ("1" :> 1) @@ ("2" :> 2) @@ ("3" :> 3) @@ ("4" :> 4) @@
  ("5" :> 5) @@ ("6" :> 6) @@ ("7" :> 7) @@ ("8" :> 8) @@ ("9" :> 9)

RECURSIVE Strip(_)
Strip(chars) ==
  IF chars = <<>> THEN chars
  ELSE IF Head(chars) = " " THEN Strip(Tail(chars))
  ELSE IF chars[Len(chars)] = " " THEN Strip(SubSeq(chars, 1, Len(chars) - 1))
  ELSE chars

Unsigned(chars) ==
  IF chars # <<>> /\ Head(chars) \in {"+", "-"} THEN Tail(chars) ELSE chars

RECURSIVE Decimal(_)
Decimal(digits) ==
  IF digits = <<>> THEN 0
  ELSE Decimal(SubSeq(digits, 1, Len(digits) - 1)) * 10
         + DigitValue[digits[Len(digits)]]

\* int(value) returns; otherwise it raises ValueError
IsInt(chars) ==
  LET digits == Unsigned(Strip(chars))
  IN digits # <<>> /\ \A i \in 1..Len(digits) : digits[i] \in DOMAIN DigitValue

int(chars) ==
  LET stripped == Strip(chars)
      n == Decimal(Unsigned(stripped))
  IN IF Head(stripped) = "-" THEN 0 - n ELSE n

\* FIELDS[filtr["field"]] and OPERATORS[filtr["operator"]] raise no KeyError
KnownTokens(f) == f.field \in DOMAIN FIELDS /\ f.operator \in DOMAIN OPERATORS

\* mutant of the inequality check: a second inequality field is accepted
InequalityConflict_never(inequality_field, field) == FALSE

\* inequality_field and inequality_field != filtr["field"]
InequalityConflict(inequality_field, field) ==
  inequality_field # None /\ inequality_field # Some(field)

\* the loop of _formatFilters from filter i on
RECURSIVE formatFiltersFrom(_, _, _, _)
formatFiltersFrom(filters, i, inequality_field, formatted_filters) ==
  IF i > Len(filters)
  THEN [raised |-> "", inequality_field |-> inequality_field,
        filters |-> formatted_filters]
  ELSE LET f == filters[i]
       IN IF ~KnownTokens(f)
          THEN Raise("BadRequestException",
                     "Filter contains invalid field or operator.")
          ELSE LET filtr == [field |-> FIELDS[f.field],
                             operator |-> OPERATORS[f.operator],
                             value |-> f.value]
               IN IF filtr.operator # "="
                  THEN IF InequalityConflict(inequality_field, filtr.field)
                       THEN Raise("BadRequestException",
                                  "Inequality filter is allowed on only one field.")
                       ELSE formatFiltersFrom(filters, i + 1, Some(filtr.field),
                                              Append(formatted_filters, filtr))
                  ELSE formatFiltersFrom(filters, i + 1, inequality_field,
                                         Append(formatted_filters, filtr))

\* mutant of the loop: the last filter is not looked at
formatFilters_skipsLast(filters) ==
  formatFiltersFrom(SubSeq(filters, 1, Len(filters) - 1), 1, None, <<>>)

formatFilters(filters) == formatFiltersFrom(filters, 1, None, <<>>)

\* mutant of the ordering: the name comes first
QueryOrders_nameFirst(inequality_filter) ==
  IF inequality_filter = None THEN <<"name">>
  ELSE <<"name", ValueOf(inequality_filter)>>

\* the q.order calls of _getQuery
QueryOrders(inequality_filter) ==
  IF inequality_filter = None THEN <<"name">>
  ELSE <<ValueOf(inequality_filter), "name">>

\* the filter loop of _getQuery from filter i on: the values of month and
\* maxAttendees go through int(), whose ValueError nothing catches
RECURSIVE filterNodesFrom(_, _, _)
filterNodesFrom(filters, i, nodes) ==
  IF i > Len(filters) THEN [raised |-> "", nodes |-> nodes]
  ELSE LET filtr == filters[i]
       IN IF filtr.field \in {"month", "maxAttendees"}
          THEN IF IsInt(filtr.value)
               THEN filterNodesFrom(filters, i + 1,
                      Append(nodes, [filtr EXCEPT !.value = int(filtr.value)]))
               ELSE Raise("ValueError", "invalid literal for int() with base 10")
          ELSE filterNodesFrom(filters, i + 1, Append(nodes, filtr))

\* _getQuery: the query as its orders and its filter nodes, or what it raised
getQuery(filters) ==
  LET formatted == formatFilters(filters)
  IN IF formatted.raised # "" THEN formatted
     ELSE LET nodes == filterNodesFrom(formatted.filters, 1, <<>>)
          IN IF nodes.raised # "" THEN nodes
             ELSE [raised |-> "", orders |-> QueryOrders(formatted.inequality_field),
                   filters |-> nodes.nodes]

\* the datastore is empty and some client is about to send a list of filters
InitQuery ==
  /\ profiles = [p \in Profiles |-> NoProfile]
  /\ conferences = [k \in ConfKeys |-> NoConf]
  /\ req = [r \in Requests |-> IdleReq]
  /\ log = <<>>
  /\ NoSessionsYet
  /\ call \in {[op |-> "_getQuery", filters |-> fs] : fs \in ConferenceQueryForms}
  /\ outcome = NoCall

\* self._getQuery(request), as queryConferences calls it
GetQuery ==
  /\ call.op = "_getQuery"
  /\ outcome = NoCall
  /\ outcome' = getQuery(call.filters)
  /\ UNCHANGED <<call, ledgerVars, speakerVars>>

NextQuery == GetQuery

SpecQuery == InitQuery /\ [][NextQuery]_vars

\* ------------------------- SpecIntersect: the intersection of two queries
\* the conferences that get sessions: the first organizer's
SessionConfKeys == {<<1, i>> : i \in 1..NumSessionConfs}
SessionNames == {"Keynote"}

\* the datastore's Session entities as the list `ss`: ss[i] is the entity with
\* id i; its key holds its parent, the conference, and the id
SessionKey(ss, i) == <<ss[i].conf, i>>
SessionEntity(ss, key) ==
  [key |-> key, name |-> ss[key[2]].name, speakers |-> ss[key[2]].speakers]

\* the queries on Session: Session.query(ancestor=conf) and
\* Session.query(Session.speakers == speaker), None for a part that is absent
SessionQueries ==
  [ancestor : {None} \cup {Some(k) : k \in SessionConfKeys},
   speaker : {None} \cup {Some(sp) : sp \in Speakers}]

\* mutant of the ancestor query: sessions of every conference match
Matches_anyAncestor(ss, q, i) ==
  q.speaker = None \/ Contains(ss[i].speakers, ValueOf(q.speaker))

Matches(ss, q, i) ==
  /\ q.ancestor = None \/ q.ancestor = Some(ss[i].conf)
  /\ q.speaker = None \/ Contains(ss[i].speakers, ValueOf(q.speaker))

\* q.fetch(keys_only=True): the keys of the matching entities, each once
fetch(ss, q) ==
  LET ids == SelectSeq([i \in 1..Len(ss) |-> i], LAMBDA i : Matches(ss, q, i))
  IN [j \in 1..Len(ids) |-> SessionKey(ss, ids[j])]

\* set(list)
ToSet(list) == {list[i] : i \in 1..Len(list)}

\* the orders in which a set may be iterated
Orderings(S) == {list \in [1..Cardinality(S) -> S] : ToSet(list) = S}

\* ndb.get_multi(keys): the entity of each key, in the order of the keys
get_multi(ss, keys) == [i \in 1..Len(keys) |-> SessionEntity(ss, keys[i])]

\* mutant of the intersection: the keys of either query
intersectQueries_union(ss, q1, q2) ==
  {get_multi(ss, keys) :
     keys \in Orderings(ToSet(fetch(ss, q1)) \cup ToSet(fetch(ss, q2)))}

\* mutant of the intersection: the second query is not run
intersectQueries_firstOnly(ss, q1, q2) ==
  {get_multi(ss, keys) : keys \in Orderings(ToSet(fetch(ss, q1)))}

\* _intersectQueries: the lists it may return, one for each order in which
\* the set of keys is iterated
intersectQueries(ss, q1, q2) ==
  {get_multi(ss, keys) :
     keys \in Orderings(ToSet(fetch(ss, q1)) \cap ToSet(fetch(ss, q2)))}

ExistingConference(k) ==
  [exists |-> TRUE, organizerUserId |-> Parent(k), maxAttendees |-> 0,
   seatsAvailable |-> 0, startDate |-> None, month |-> 0]
ExistingSpeaker(sp) == [exists |-> TRUE, name |-> <<"speaker", sp>>]

\* the Session entities a datastore may hold
SpeakerLists ==
  {<<>>} \cup {<<sp>> : sp \in Speakers}
         \cup {<<sp1, sp2>> : sp1 \in Speakers, sp2 \in Speakers}
SessionEntities ==
  [conf : SessionConfKeys, name : SessionNames, speakers : SpeakerLists]

\* the organizer has created the conferences, the speakers and some sessions,
\* and two queries on Session are about to be intersected
InitIntersect ==
  /\ profiles = [p \in Profiles |-> IF p = 1 THEN ExistingProfile ELSE NoProfile]
  /\ conferences = [k \in SessionConfKeys |-> ExistingConference(k)]
  /\ req = [r \in Requests |-> IdleReq]
  /\ log = <<>>
  /\ sessions \in UNION {[1..n -> SessionEntities] : n \in 0..MaxSessions}
  /\ speakers = [sp \in Speakers |-> ExistingSpeaker(sp)]
  /\ memcache = EmptyDict
  /\ taskqueue = <<>>
  /\ wishlists = <<>>
  /\ call \in {[op |-> "_intersectQueries", q1 |-> q1, q2 |-> q2] :
                 q1 \in SessionQueries, q2 \in SessionQueries}
  /\ outcome = NoCall

\* self._intersectQueries(q1, q2)
IntersectQueries ==
  /\ call.op = "_intersectQueries"
  /\ outcome = NoCall
  /\ \E entities \in intersectQueries(sessions, call.q1, call.q2) :
       outcome' = [raised |-> "", entities |-> entities]
  /\ UNCHANGED <<call, ledgerVars, speakerVars>>

NextIntersect == IntersectQueries

SpecIntersect == InitIntersect /\ [][NextIntersect]_vars

\* ------------------------------- SpecFeatured: the featured speakers
\* json.dumps(obj) is a text that json.loads reads back as obj
json_dumps(obj) == [json |-> obj]
json_loads(text) == text.json
\* json.loads(text) returns; otherwise it raises ValueError
IsJson(text) == "json" \in DOMAIN text

\* a task parameter given as a dict and not as a string: the queue sends the
\* dict's keys as the parameter's values, which is no JSON text
FlatParam(dict) == [plain |-> DOMAIN dict]

\* mutant of the assignment: a key that is present is dropped instead
DictSet_toggles(d, key, value) ==
  IF key \in DOMAIN d THEN [k \in DOMAIN d \ {key} |-> d[k]]
  ELSE [k \in DOMAIN d \cup {key} |-> IF k = key THEN value ELSE d[k]]

\* d[key] = value, and del d[key]
DictSet(d, key, value) ==
  [k \in DOMAIN d \cup {key} |-> IF k = key THEN value ELSE d[k]]

\* mutant of del: the key stays
DictDel_keeps(d, key) == d

DictDel(d, key) == [k \in DOMAIN d \ {key} |-> d[k]]

\* _getSpeakerSchedule over the Session entities ss: a dict with the speaker's
\* key as its only key
getSpeakerSchedule(ss, speaker, conf) ==
  LET all_sess_by_spkr == [ancestor |-> None, speaker |-> Some(speaker)]
      all_sess_of_conf == [ancestor |-> Some(conf), speaker |-> None]
      found == CHOOSE list \in
                 intersectQueries(ss, all_sess_by_spkr, all_sess_of_conf) : TRUE
  IN [sp \in {speaker} |->
        [name |-> speakers[speaker].name,
         sessions |-> [k \in ToSet([i \in 1..Len(found) |-> found[i].key]) |->
                         SessionEntity(ss, k).name]]]

\* len(speaker_schedule[speaker_wsk]['sessions'])
ScheduleSize(schedule, speaker_wsk) ==
  Cardinality(DOMAIN schedule[speaker_wsk].sessions)

\* mutant of the threshold: featured from the third session on
IsFeatured_fromThree(schedule, speaker_wsk) ==
  ScheduleSize(schedule, speaker_wsk) > 2

\* len(speaker_schedule[speaker_wsk]['sessions']) > 1
IsFeatured(schedule, speaker_wsk) == ScheduleSize(schedule, speaker_wsk) > 1

\* _updateFeaturedSpeakers: the memcache it leaves, or the exception of
\* json.loads, which leaves the memcache as it was
\* mutant of the task: the map is built anew and what is cached is not read
updateFeaturedSpeakers_fresh(cache, conf, json_schedule) ==
  IF ~IsJson(json_schedule)
  THEN [raised |-> "ValueError", memcache |-> cache]
  ELSE LET speaker_schedule == json_loads(json_schedule)
           speaker_wsk == CHOOSE k \in DOMAIN speaker_schedule : TRUE
       IN [raised |-> "",
           memcache |-> IF IsFeatured(speaker_schedule, speaker_wsk)
                        THEN DictSet(cache, conf, json_dumps(speaker_schedule))
                        ELSE DictDel(cache, conf)]

updateFeaturedSpeakers(cache, conf, json_schedule) ==
  IF ~IsJson(json_schedule)
  THEN [raised |-> "ValueError", memcache |-> cache]
  ELSE LET speaker_schedule == json_loads(json_schedule)
           featured == IF conf \in DOMAIN cache
                       THEN json_loads(cache[conf]) ELSE EmptyDict
           speaker_wsk == CHOOSE k \in DOMAIN speaker_schedule : TRUE
           updated == IF IsFeatured(speaker_schedule, speaker_wsk)
                      THEN DictSet(featured, speaker_wsk,
                                   speaker_schedule[speaker_wsk])
                      ELSE DictDel(featured, speaker_wsk)
       IN [raised |-> "",
           memcache |-> IF updated # EmptyDict
                        THEN DictSet(cache, conf, json_dumps(updated))
                        ELSE DictDel(cache, conf)]

StringMessage(data) == [data |-> data]

\* mutant of the read path: the cache is not looked at
getFeaturedSpeaker_neverCached(cache, websafeKey) ==
  StringMessage(json_dumps(EmptyDict))

\* getFeaturedSpeaker: memcache.get(key) or "{}"
getFeaturedSpeaker(cache, websafeKey) ==
  StringMessage(IF websafeKey \in DOMAIN cache
                THEN cache[websafeKey] ELSE json_dumps(EmptyDict))

\* a task for /tasks/set_featured_speakers
Task(conf_wsk, schedule) == [conf_wsk |-> conf_wsk, schedule |-> schedule]

\* _updateSpeakerForSession over the Session entities ss: the entities it
\* leaves, the tasks it adds, and what it raised; a session's key is given by
\* its id
updateSpeakerForSession(ss, websafeSpeakerKey, websafeSessionKey, add) ==
  IF websafeSessionKey \notin 1..Len(ss)
  THEN [raised |-> "NotFoundException", sessions |-> ss, tasks |-> <<>>]
  ELSE LET session == ss[websafeSessionKey]
           conf_key == session.conf
           listed == Contains(session.speakers, websafeSpeakerKey)
           put == [ss EXCEPT ![websafeSessionKey].speakers =
                     IF add THEN Append(@, websafeSpeakerKey)
                     ELSE RemoveFirst(@, websafeSpeakerKey)]
           speaker_schedule == getSpeakerSchedule(put, websafeSpeakerKey, conf_key)
           n == ScheduleSize(speaker_schedule, websafeSpeakerKey)
       IN IF add = listed
          THEN [raised |-> "", sessions |-> ss, tasks |-> <<>>]
          ELSE IF ~speakers[websafeSpeakerKey].exists
          THEN [raised |-> "AttributeError", sessions |-> put, tasks |-> <<>>]
          ELSE [raised |-> "", sessions |-> put,
                tasks |-> IF (add /\ n > 1) \/ (~add /\ n < 2)
                          THEN <<Task(conf_key, json_dumps(speaker_schedule))>>
                          ELSE <<>>]

\* the loop of _createSessionObject that adds the request's speakers, from
\* the i-th on, to the session the request names by websafeKey
RECURSIVE addSpeakersFrom(_, _, _, _, _)
addSpeakersFrom(ss, spkr_keys, i, websafeKey, tasks) ==
  IF i > Len(spkr_keys) THEN [raised |-> "", sessions |-> ss, tasks |-> tasks]
  ELSE LET r == updateSpeakerForSession(ss, spkr_keys[i], websafeKey, TRUE)
       IN IF r.raised # "" THEN [r EXCEPT !.tasks = tasks \o @]
          ELSE addSpeakersFrom(r.sessions, spkr_keys, i + 1, websafeKey,
                               tasks \o r.tasks)

\* _createSessionObject over the Session entities ss: the entities it leaves,
\* the featured-speaker tasks it adds, and what it raised (the task of the
\* confirmation mail touches no state and is left out)
createSessionObject(ss, user, request) ==
  LET conf_key == request.websafeConferenceKey
      unchanged == [raised |-> "", sessions |-> ss, tasks |-> <<>>]
  IN IF conf_key \notin DOMAIN conferences \/ ~conferences[conf_key].exists
     THEN [unchanged EXCEPT !.raised = "NotFoundException"]
     ELSE IF user # conferences[conf_key].organizerUserId
     THEN [unchanged EXCEPT !.raised = "ForbiddenException"]
     ELSE IF request.name = None
     THEN [unchanged EXCEPT !.raised = "BadRequestException"]
     ELSE LET updated ==
                IF request.speakers # <<>> /\ request.websafeKey # None
                THEN addSpeakersFrom(ss, request.speakers, 1,
                                     ValueOf(request.websafeKey), <<>>)
                ELSE unchanged
              put == Append(updated.sessions,
                            [conf |-> conf_key, name |-> ValueOf(request.name),
                             speakers |-> request.speakers])
          IN IF updated.raised # "" THEN updated
             ELSE [raised |-> "", sessions |-> put,
                   tasks |-> updated.tasks \o
                     [i \in 1..Len(request.speakers) |->
                        Task(conf_key,
                             FlatParam(getSpeakerSchedule(
                                         put, request.speakers[i], conf_key)))]]

SessionForm ==
  [websafeConferenceKey : SessionConfKeys,
   name : {None} \cup {Some(n) : n \in SessionNames},
   speakers : SpeakerLists,
   websafeKey : {None} \cup {Some(i) : i \in 1..MaxSessions}]

\* createSession, run to its end
CreateSession(user, request) ==
  /\ Len(sessions) < MaxSessions
  /\ LET r == createSessionObject(sessions, user, request)
     IN /\ sessions' = r.sessions
        /\ taskqueue' = taskqueue \o r.tasks
  /\ UNCHANGED <<speakers, memcache, wishlists, ledgerVars, callVars>>

\* addSpeakerToSession (add) or removeSpeakerFromSession (~add), run to its end
UpdateSpeaker(websafeSpeakerKey, websafeSessionKey, add) ==
  /\ LET r == updateSpeakerForSession(sessions, websafeSpeakerKey,
                                      websafeSessionKey, add)
     IN /\ sessions' = r.sessions
        /\ taskqueue' = taskqueue \o r.tasks
  /\ UNCHANGED <<speakers, memcache, wishlists, ledgerVars, callVars>>

AddSpeakerToSession(websafeSpeakerKey, websafeSessionKey) ==
  UpdateSpeaker(websafeSpeakerKey, websafeSessionKey, TRUE)

RemoveSpeakerFromSession(websafeSpeakerKey, websafeSessionKey) ==
  UpdateSpeaker(websafeSpeakerKey, websafeSessionKey, FALSE)

\* the queue without its i-th task
Without(queue, i) == SubSeq(queue, 1, i - 1) \o SubSeq(queue, i + 1, Len(queue))

\* the queue runs the i-th pending task: its handler calls
\* _updateFeaturedSpeakers with the task's parameters; a task that fails is
\* given up silently
RunTask(i) ==
  /\ i \in 1..Len(taskqueue)
  /\ LET task == taskqueue[i]
     IN memcache' = updateFeaturedSpeakers(memcache, task.conf_wsk,
                                           task.schedule).memcache
  /\ taskqueue' = Without(taskqueue, i)
  /\ UNCHANGED <<sessions, speakers, wishlists, ledgerVars, callVars>>

\* the organizer has created the conferences and the speakers
InitFeatured ==
  /\ profiles = [p \in Profiles |-> IF p = 1 THEN ExistingProfile ELSE NoProfile]
  /\ conferences = [k \in SessionConfKeys |-> ExistingConference(k)]
  /\ req = [r \in Requests |-> IdleReq]
  /\ log = <<>>
  /\ sessions = <<>>
  /\ speakers = [sp \in Speakers |-> ExistingSpeaker(sp)]
  /\ memcache = EmptyDict
  /\ taskqueue = <<>>
  /\ wishlists = <<>>
  /\ NoCallYet

\* every task has run before the next change of the sessions
NextFeatured ==
  \/ \E u \in Clients, rq \in SessionForm :
        taskqueue = <<>> /\ CreateSession(u, rq)
  \/ \E sp \in Speakers, i \in 1..MaxSessions :
        taskqueue = <<>> /\ AddSpeakerToSession(sp, i)
  \/ \E sp \in Speakers, i \in 1..MaxSessions :
        taskqueue = <<>> /\ RemoveSpeakerFromSession(sp, i)
  \/ \E i \in 1..MaxTasks : RunTask(i)

SpecFeatured == InitFeatured /\ [][NextFeatured]_vars


\* ----------- SpecPending: tasks stay pending and run in any order
\* the organizer has also created some sessions, none with a speaker yet
InitPending ==
  /\ profiles = [p \in Profiles |-> IF p = 1 THEN ExistingProfile ELSE NoProfile]
  /\ conferences = [k \in SessionConfKeys |-> ExistingConference(k)]
  /\ req = [r \in Requests |-> IdleReq]
  /\ log = <<>>
  /\ sessions \in UNION {[1..n -> [conf : SessionConfKeys, name : SessionNames,
                                   speakers : {<<>>}]] : n \in 0..MaxSessions}
  /\ speakers = [sp \in Speakers |-> ExistingSpeaker(sp)]
  /\ memcache = EmptyDict
  /\ taskqueue = <<>>
  /\ wishlists = <<>>
  /\ NoCallYet

\* speakers are added and removed while up to MaxPending tasks wait, and the
\* queue runs the waiting tasks in any order
NextPending ==
  \/ \E sp \in Speakers, i \in 1..MaxSessions :
        Len(taskqueue) < MaxPending /\ AddSpeakerToSession(sp, i)
  \/ \E sp \in Speakers, i \in 1..MaxSessions :
        Len(taskqueue) < MaxPending /\ RemoveSpeakerFromSession(sp, i)
  \/ \E i \in 1..MaxPending : RunTask(i)

SpecPending == InitPending /\ [][NextPending]_vars

\* the endpoint getFeaturedSpeaker, called with a conference's websafe key
GetFeaturedSpeaker(websafeKey) ==
  /\ call' = [op |-> "getFeaturedSpeaker", websafeKey |-> websafeKey]
  /\ outcome' = getFeaturedSpeaker(memcache, websafeKey)
  /\ UNCHANGED <<ledgerVars, speakerVars>>

\* a cached map reaches the end of its 24 hours
Expire(memcache_key) ==
  /\ memcache_key \in DOMAIN memcache
  /\ memcache' = DictDel(memcache, memcache_key)
  /\ UNCHANGED <<sessions, speakers, taskqueue, wishlists, ledgerVars, callVars>>

\* speakers are added to and removed from existing sessions, every task runs
\* before the next change, cached maps expire and the cache is read
NextRead ==
  \/ \E sp \in Speakers, i \in 1..MaxSessions :
        taskqueue = <<>> /\ AddSpeakerToSession(sp, i)
  \/ \E sp \in Speakers, i \in 1..MaxSessions :
        taskqueue = <<>> /\ RemoveSpeakerFromSession(sp, i)
  \/ \E i \in 1..MaxTasks : RunTask(i)
  \/ \E k \in SessionConfKeys : GetFeaturedSpeaker(k)
  \/ \E k \in SessionConfKeys : Expire(k)

SpecRead == InitPending /\ [][NextRead]_vars

(***************************************************************************)
(* Featured-speaker tasks that overlap: each run of the handler reads the  *)
(* conference's key with memcache.get and later writes it with             *)
(* memcache.set or memcache.delete; `req` holds each run's position.       *)
(***************************************************************************)
IdleJob == [pc |-> "idle", task |-> NoCall, cached |-> EmptyDict]

\* a run begins with a waiting task and reads the cache
JobGet(r, i) ==
  /\ req[r].pc = "idle"
  /\ i \in 1..Len(taskqueue)
  /\ req' = [req EXCEPT ![r] = [pc |-> "set", task |-> taskqueue[i],
                                cached |-> memcache]]
  /\ taskqueue' = Without(taskqueue, i)
  /\ UNCHANGED <<profiles, conferences, log, sessions, speakers, memcache,
                 wishlists, callVars>>

\* the run writes the map it made from what it read, or deletes the key
JobSet(r) ==
  /\ req[r].pc = "set"
  /\ LET conf == req[r].task.conf_wsk
         written == updateFeaturedSpeakers(req[r].cached, conf,
                                           req[r].task.schedule).memcache
     IN memcache' = IF conf \in DOMAIN written
                    THEN DictSet(memcache, conf, written[conf])
                    ELSE DictDel(memcache, conf)
  /\ req' = [req EXCEPT ![r] = IdleJob]
  /\ UNCHANGED <<profiles, conferences, log, sessions, speakers, taskqueue,
                 wishlists, callVars>>

\* two sessions of the first conference exist, without speakers
InitJobs ==
  /\ profiles = [p \in Profiles |-> IF p = 1 THEN ExistingProfile ELSE NoProfile]
  /\ conferences = [k \in SessionConfKeys |-> ExistingConference(k)]
  /\ req = [r \in Requests |-> IdleJob]
  /\ log = <<>>
  /\ sessions = [i \in 1..2 |-> [conf |-> <<1, 1>>, name |-> "Keynote",
                                 speakers |-> <<>>]]
  /\ speakers = [sp \in Speakers |-> ExistingSpeaker(sp)]
  /\ memcache = EmptyDict
  /\ taskqueue = <<>>
  /\ wishlists = <<>>
  /\ NoCallYet

NoJobRuns == \A r \in Requests : req[r].pc = "idle"

\* speakers are added and removed while no task runs and fewer than MaxPending
\* tasks wait; up to MaxRequests runs of the task handler overlap
NextJobs ==
  \/ \E sp \in Speakers, i \in 1..MaxSessions :
        NoJobRuns /\ Len(taskqueue) < MaxPending /\ AddSpeakerToSession(sp, i)
  \/ \E sp \in Speakers, i \in 1..MaxSessions :
        NoJobRuns /\ Len(taskqueue) < MaxPending /\ RemoveSpeakerFromSession(sp, i)
  \/ \E r \in Requests, i \in 1..MaxPending : JobGet(r, i)
  \/ \E r \in Requests : JobSet(r)

SpecJobs == InitJobs /\ [][NextJobs]_vars

(***************************************************************************)
(* addSpeakerToSession and removeSpeakerFromSession requests that overlap: *)
(* _updateSpeakerForSession runs in no transaction, it gets the session    *)
(* and later puts the entity it holds.  `req` holds each request's         *)
(* position, its inputs (task) and the session it got (cached).            *)
(***************************************************************************)
\* session = ndb.Key(urlsafe=websafeSessionKey).get()
SpeakerGet(r, websafeSpeakerKey, websafeSessionKey, add) ==
  /\ req[r].pc = "idle"
  /\ websafeSessionKey \in 1..Len(sessions)
  /\ req' = [req EXCEPT ![r] =
               [pc |-> "put",
                task |-> [websafeSpeakerKey |-> websafeSpeakerKey,
                          websafeSessionKey |-> websafeSessionKey, add |-> add],
                cached |-> sessions[websafeSessionKey]]]
  /\ UNCHANGED <<profiles, conferences, log, speakerVars, callVars>>

\* the rest of _updateSpeakerForSession on the session it got: when the list
\* changes the whole entity is put, then the schedule is queried and the task
\* enqueued
SpeakerPut(r) ==
  /\ req[r].pc = "put"
  /\ LET t == req[r].task
         held == [sessions EXCEPT ![t.websafeSessionKey] = req[r].cached]
         done == updateSpeakerForSession(held, t.websafeSpeakerKey,
                                         t.websafeSessionKey, t.add)
     IN /\ sessions' = IF done.sessions = held THEN sessions ELSE done.sessions
        /\ taskqueue' = taskqueue \o done.tasks
  /\ req' = [req EXCEPT ![r] = IdleJob]
  /\ UNCHANGED <<profiles, conferences, log, speakers, memcache, wishlists,
                 callVars>>

\* up to MaxRequests requests overlap while fewer than MaxPending tasks wait;
\* the tasks run one at a time
NextSpeakerRace ==
  \/ \E r \in Requests, sp \in Speakers, i \in 1..MaxSessions, add \in BOOLEAN :
        Len(taskqueue) < MaxPending /\ SpeakerGet(r, sp, i, add)
  \/ \E r \in Requests : SpeakerPut(r)
  \/ \E i \in 1..MaxTasks : RunTask(i)

SpecSpeakerRace == InitJobs /\ [][NextSpeakerRace]_vars

\* every conference has two sessions, without speakers
InitTwoMaps ==
  /\ profiles = [p \in Profiles |-> IF p = 1 THEN ExistingProfile ELSE NoProfile]
  /\ conferences = [k \in SessionConfKeys |-> ExistingConference(k)]
  /\ req = [r \in Requests |-> IdleReq]
  /\ log = <<>>
  /\ sessions = [i \in 1..(2 * NumSessionConfs) |->
                   [conf |-> <<1, (i + 1) \div 2>>, name |-> "Keynote",
                    speakers |-> <<>>]]
  /\ speakers = [sp \in Speakers |-> ExistingSpeaker(sp)]
  /\ memcache = EmptyDict
  /\ taskqueue = <<>>
  /\ wishlists = <<>>
  /\ NoCallYet

\* speakers are added to and removed from these sessions, and every task has
\* run before the next change
NextTwoMaps ==
  \/ \E sp \in Speakers, i \in 1..(2 * NumSessionConfs) :
        taskqueue = <<>> /\ AddSpeakerToSession(sp, i)
  \/ \E sp \in Speakers, i \in 1..(2 * NumSessionConfs) :
        taskqueue = <<>> /\ RemoveSpeakerFromSession(sp, i)
  \/ \E i \in 1..MaxTasks : RunTask(i)

SpecTwoMaps == InitTwoMaps /\ [][NextTwoMaps]_vars

(***************************************************************************)
(* updateConference: the owner overwrites the fields the request carries.  *)
(***************************************************************************)
DateStrings == {<<2016, 3, 1>>, <<2016, 11, 5>>, <<2016, 13, 1>>}
MonthInputs == {None, Some(3)}

ConferenceForm ==
  [name : BOOLEAN, maxAttendees : MaxAttendeesInputs,
   seatsAvailable : SeatsAvailableInputs,
   startDate : {None} \cup {Some(d) : d \in DateStrings}, month : MonthInputs]

\* the month after the loop over request.all_fields(), whose order is that of
\* a dict: with monthLast the field month is copied after startDate
MonthOf(request, monthLast, stored) ==
  IF request.month # None /\ (request.startDate = None \/ monthLast)
  THEN ValueOf(request.month)
  ELSE IF request.startDate # None
       THEN ValueOf(strptime(ValueOf(request.startDate))).month
       ELSE stored

\* only copy fields where we get data
Copied(data, stored) == IF data # None THEN ValueOf(data) ELSE stored

\* the transaction's writes are dropped when the function raises
updateConferenceObject(confs, profs, user, websafeConferenceKey, request, monthLast) ==
  LET conf == confs[websafeConferenceKey]
      updated == [conf EXCEPT
                    !.maxAttendees = Copied(request.maxAttendees, @),
                    !.seatsAvailable = Copied(request.seatsAvailable, @),
                    !.startDate = IF request.startDate # None
                                  THEN strptime(ValueOf(request.startDate)) ELSE @,
                    !.month = MonthOf(request, monthLast, @)]
  IN IF ~conf.exists
     THEN [raised |-> "NotFoundException", conferences |-> confs]
     ELSE IF user # conf.organizerUserId
     THEN [raised |-> "ForbiddenException", conferences |-> confs]
     ELSE IF ~ValidDate(request.startDate)
     THEN [raised |-> "ValueError", conferences |-> confs]
     ELSE IF ~profs[user].exists
     THEN [raised |-> "AttributeError", conferences |-> confs]
     ELSE [raised |-> "",
           conferences |-> [confs EXCEPT ![websafeConferenceKey] = updated]]

UpdateConference(user, websafeConferenceKey, request, monthLast) ==
  /\ conferences' = updateConferenceObject(conferences, profiles, user,
                       websafeConferenceKey, request, monthLast).conferences
  /\ UNCHANGED <<profiles, req, log, speakerVars, callVars>>

\* no conference yet; the organizer may have saved a profile
InitUpdate ==
  /\ profiles \in {[p \in Profiles |-> IF p \in S THEN ExistingProfile ELSE NoProfile] :
                     S \in SUBSET Organizers}
  /\ conferences = [k \in ConfKeys |-> NoConf]
  /\ req = [r \in Requests |-> IdleReq]
  /\ log = <<>>
  /\ NoSessionsYet
  /\ NoCallYet

\* conferences are created and updated and users register and unregister, one
\* call after the other; no log is kept.  The stored record has no name, so
\* the update requests that carry one stand for those that carry none
NextUpdate ==
  \/ \E u \in Profiles, rq \in ConferenceForm : createConference(u, rq, 0)
  \/ \E u \in Clients, k \in ConfKeys, rq \in ConferenceForm, monthLast \in BOOLEAN :
        rq.name /\ UpdateConference(u, k, rq, monthLast)
  \/ \E u \in Profiles, k \in ConfKeys : registerForConference(u, k, 0)
  \/ \E u \in Profiles, k \in ConfKeys : unregisterFromConference(u, k, 0)

SpecUpdate == InitUpdate /\ [][NextUpdate]_vars

\* the conferences of a fresh createConference call with all seats free
FreshConferences ==
  {createConferenceObject(1, rq) :
     rq \in {f \in ConferenceForm :
               /\ f.name /\ f.month = None /\ ValidDate(f.startDate)
               /\ f.maxAttendees # None /\ f.seatsAvailable = f.maxAttendees}}

\* two conferences exist and nobody has a profile
InitFrame ==
  /\ profiles = [p \in Profiles |-> NoProfile]
  /\ conferences \in [SessionConfKeys -> FreshConferences]
  /\ req = [r \in Requests |-> IdleReq]
  /\ log = <<>>
  /\ NoSessionsYet
  /\ NoCallYet

\* users register for and unregister from two conferences; no log is kept
NextFrame ==
  \/ \E u \in Profiles, k \in SessionConfKeys : registerForConference(u, k, 0)
  \/ \E u \in Profiles, k \in SessionConfKeys : unregisterFromConference(u, k, 0)

SpecFrame == InitFrame /\ [][NextFrame]_vars

(***************************************************************************)
(* Wishlists: Wishlist entities are children of the caller's Profile key   *)
(* and refer to one Session key each.                                      *)
(***************************************************************************)
MaxWishes == 3
NumWishSessions == 2

\* the session keys a request can carry; only those of stored sessions exist
WishSessions == 1..NumWishSessions

\* websafeKey is a required string; None stands for the empty string
GENERIC_WEBSAFEKEY_REQUEST == [websafeKey : {None} \cup {Some(i) : i \in WishSessions}]

Wish(prof_key, session) == [parent |-> prof_key, session |-> session]

\* session.get(): the entity of a session key, None when there is none
SessionGet(ss, i) ==
  IF i \in 1..Len(ss) THEN Some(SessionEntity(ss, SessionKey(ss, i))) ELSE None

\* _copySessionToForm; session.key of None raises
copySessionToForm(session) ==
  IF session = None THEN [raised |-> "AttributeError"]
  ELSE [raised |-> "", form |-> ValueOf(session)]

createWishlistObject(ws, user, request) ==
  IF request.websafeKey = None
  THEN [raised |-> "BadRequestException", wishlists |-> ws]
  ELSE [raised |-> "",
        wishlists |-> Append(ws, Wish(user, ValueOf(request.websafeKey)))]

getSessionsInWishlist(ws, ss, user) ==
  LET wish_keys == SelectSeq(ws, LAMBDA w : w.parent = user)
      sess_keys == [i \in 1..Len(wish_keys) |-> wish_keys[i].session]
  IN IF sess_keys = <<>>
     THEN [raised |-> "BadRequestException", items |-> <<>>]
     ELSE [raised |-> "",
           items |-> [i \in 1..Len(sess_keys) |-> SessionGet(ss, sess_keys[i])]]

\* the entities of sessions[0].key.delete() are alike but for their id, so the
\* first of them stands for whichever the query returns first
updateSessionsInWishlist(ws, ss, user, request, add) ==
  IF request.websafeKey = None
  THEN [raised |-> "TypeError", wishlists |-> ws]
  ELSE
    LET session == ValueOf(request.websafeKey)
        found == {i \in 1..Len(ws) : ws[i] = Wish(user, session)}
    IN IF add
       THEN IF Cardinality(found) > 0
            THEN [raised |-> "BadRequestException", wishlists |-> ws]
            ELSE [raised |-> copySessionToForm(SessionGet(ss, session)).raised,
                  wishlists |-> createWishlistObject(ws, user, request).wishlists]
       ELSE LET left == IF found # {}
                        THEN Without(ws, CHOOSE i \in found :
                                            \A j \in found : i <= j)
                        ELSE ws
                updated_wishlist == getSessionsInWishlist(left, ss, user)
            IN [raised |->
                  IF updated_wishlist.raised # "" THEN updated_wishlist.raised
                  ELSE IF \E i \in 1..Len(updated_wishlist.items) :
                             copySessionToForm(updated_wishlist.items[i]).raised # ""
                       THEN "AttributeError" ELSE "",
                wishlists |-> left]

WishlistCall(op, user, request, r) ==
  /\ wishlists' = r.wishlists
  /\ call' = [op |-> op, user |-> user, websafeKey |-> request.websafeKey]
  /\ outcome' = [raised |-> r.raised]
  /\ UNCHANGED <<sessions, speakers, memcache, taskqueue, ledgerVars>>

CreateWishlist(user, request) ==
  /\ Len(wishlists) < MaxWishes
  /\ WishlistCall("createWishlist", user, request,
                  createWishlistObject(wishlists, user, request))

AddSessionToWishlist(user, request) ==
  /\ Len(wishlists) < MaxWishes
  /\ WishlistCall("addSessionToWishlist", user, request,
                  updateSessionsInWishlist(wishlists, sessions, user, request, TRUE))

DeleteSessionInWishlist(user, request) ==
  WishlistCall("deleteSessionInWishlist", user, request,
               updateSessionsInWishlist(wishlists, sessions, user, request, FALSE))

\* one session exists and nobody has a wishlist
InitWishlist ==
  /\ profiles = [p \in Profiles |-> IF p \in Clients THEN ExistingProfile ELSE NoProfile]
  /\ conferences = [k \in SessionConfKeys |-> ExistingConference(k)]
  /\ req = [r \in Requests |-> IdleReq]
  /\ log = <<>>
  /\ sessions = <<[conf |-> <<1, 1>>, name |-> "Keynote", speakers |-> <<>>]>>
  /\ speakers = [sp \in Speakers |-> ExistingSpeaker(sp)]
  /\ memcache = EmptyDict
  /\ taskqueue = <<>>
  /\ wishlists = <<>>
  /\ NoCallYet

NextWishlist ==
  \/ \E u \in Clients, rq \in GENERIC_WEBSAFEKEY_REQUEST : CreateWishlist(u, rq)
  \/ \E u \in Clients, rq \in GENERIC_WEBSAFEKEY_REQUEST : AddSessionToWishlist(u, rq)
  \/ \E u \in Clients, rq \in GENERIC_WEBSAFEKEY_REQUEST : DeleteSessionInWishlist(u, rq)

SpecWishlist == InitWishlist /\ [][NextWishlist]_vars

\* ------------------------------------------------------------ the claims
\* the store after the i-th logged call
After(i) == IF i = Len(log) THEN Store ELSE log[i+1].before
SeatsIn(store, k) == store.conferences[k].seatsAvailable
KeysIn(store, u) == store.profiles[u].conferenceKeysToAttend
AttendeesIn(store, k) == {p \in Profiles : Contains(KeysIn(store, p), k)}

\* C1: under any interleaving of concurrent register and unregister
\* transactions, a conference whose seatsAvailable is >= 0 never gets a
\* negative seatsAvailable.
C1_SeatsNeverNegative ==
  [][\A k \in ConfKeys :
       (conferences[k].exists /\ conferences[k].seatsAvailable >= 0)
          => conferences'[k].seatsAvailable >= 0]_vars

\* C1 witness: a registration that saw a free seat is about to commit while
\* another request's commit has meanwhile taken the last seat.
C1_Witness ==
  \E r \in DOMAIN req :
    /\ req[r].pc = "commit" /\ req[r].reg /\ req[r].stale
    /\ req[r].conf.seatsAvailable = 0
    /\ conferences[req[r].wsck].seatsAvailable = 0

\* C2: when every profile concurrently tries to register for a conference with
\* one seat left, then once all attempts have ended exactly one returned true,
\* every other one raised 'no seats available', and seatsAvailable is 0.
C2_OneWinner ==
  (\A r \in DOMAIN req : req[r].pc = "done") =>
     /\ Cardinality({r \in DOMAIN req : req[r].result = "True"}) = 1
     /\ \A r \in DOMAIN req : req[r].result \in {"True", "NoSeats"}
     /\ \A k \in ConfKeys : conferences[k].exists =>
           /\ conferences[k].seatsAvailable = 0
           /\ Cardinality(Attendees(k)) = 1

\* C2 witness: all the attempts have ended, and there were at least three.
C2_Witness ==
  /\ Cardinality(DOMAIN req) >= 3
  /\ \A r \in DOMAIN req : req[r].pc = "done"
  /\ \E r \in DOMAIN req : req[r].result = "NoSeats"

\* C3: a register call for an existing conference the caller is not registered
\* for, with seatsAvailable > 0, returns true; afterwards the key is in the
\* caller's conferenceKeysToAttend and seatsAvailable is one less.
C3_RegisterSucceeds ==
  \A i \in 1..Len(log) :
    LET e == log[i] IN
    (/\ e.op = "register"
     /\ e.before.conferences[e.wsck].exists
     /\ ~Contains(KeysIn(e.before, e.user), e.wsck)
     /\ SeatsIn(e.before, e.wsck) > 0)
    => /\ e.result = "True"
       /\ Contains(KeysIn(After(i), e.user), e.wsck)
       /\ SeatsIn(After(i), e.wsck) = SeatsIn(e.before, e.wsck) - 1

\* C3 witness: such a register call has been made.
C3_Witness ==
  \E i \in 1..Len(log) :
    /\ log[i].op = "register"
    /\ log[i].before.conferences[log[i].wsck].exists
    /\ ~Contains(KeysIn(log[i].before, log[i].user), log[i].wsck)
    /\ SeatsIn(log[i].before, log[i].wsck) > 0

\* C4: a register call against a conference with seatsAvailable <= 0 by a
\* profile not yet registered raises 'no seats available' and leaves the
\* store as it was.
C4_NoSeatsFails ==
  \A i \in 1..Len(log) :
    LET e == log[i] IN
    (/\ e.op = "register"
     /\ e.before.conferences[e.wsck].exists
     /\ ~Contains(KeysIn(e.before, e.user), e.wsck)
     /\ SeatsIn(e.before, e.wsck) <= 0)
    => /\ e.result = "NoSeats"
       /\ After(i) = e.before

\* C4 witness: a profile tried to register for a conference that had been
\* filled up by a registration.
C4_Witness ==
  \E i \in 1..Len(log) :
    /\ log[i].op = "register"
    /\ log[i].before.conferences[log[i].wsck].exists
    /\ log[i].before.conferences[log[i].wsck].maxAttendees > 0
    /\ AttendeesIn(log[i].before, log[i].wsck) # {}
    /\ log[i].user \notin AttendeesIn(log[i].before, log[i].wsck)
    /\ SeatsIn(log[i].before, log[i].wsck) = 0

\* C5: a register call by a profile already registered for the conference
\* raises 'already registered' whatever seatsAvailable is, and leaves
\* seatsAvailable and the profile's conferenceKeysToAttend as they were.
C5_AlreadyRegisteredFails ==
  \A i \in 1..Len(log) :
    LET e == log[i] IN
    (e.op = "register" /\ Contains(KeysIn(e.before, e.user), e.wsck))
    => /\ e.result = "AlreadyRegistered"
       /\ SeatsIn(After(i), e.wsck) = SeatsIn(e.before, e.wsck)
       /\ KeysIn(After(i), e.user) = KeysIn(e.before, e.user)

\* C5 witness: a registered profile registered again when no seat was left.
C5_Witness ==
  \E i \in 1..Len(log) :
    /\ log[i].op = "register"
    /\ Contains(KeysIn(log[i].before, log[i].user), log[i].wsck)
    /\ SeatsIn(log[i].before, log[i].wsck) <= 0

\* C6: a successful register directly followed by an unregister of the same
\* profile for the same conference restores seatsAvailable and leaves the key
\* out of the profile's conferenceKeysToAttend.
C6_RegisterThenUnregister ==
  \A i \in 1..(Len(log) - 1) :
    LET e == log[i]
        f == log[i+1] IN
    (/\ e.op = "register" /\ e.result = "True"
     /\ f.op = "unregister" /\ f.user = e.user /\ f.wsck = e.wsck)
    => /\ f.result = "True"
       /\ SeatsIn(After(i+1), e.wsck) = SeatsIn(e.before, e.wsck)
       /\ ~Contains(KeysIn(After(i+1), e.user), e.wsck)

\* C6 witness: such a pair of calls has been made.
C6_Witness ==
  \E i \in 1..(Len(log) - 1) :
    /\ log[i].op = "register" /\ log[i].result = "True"
    /\ log[i+1].op = "unregister"
    /\ log[i+1].user = log[i].user /\ log[i+1].wsck = log[i].wsck

\* C7: an unregister call for an existing conference by a profile that is not
\* registered for it returns false and raises nothing; seatsAvailable and the
\* profile's conferenceKeysToAttend stay as they were.
C7_UnregisterAbsent ==
  \A i \in 1..Len(log) :
    LET e == log[i] IN
    (/\ e.op = "unregister"
     /\ e.before.conferences[e.wsck].exists
     /\ ~Contains(KeysIn(e.before, e.user), e.wsck))
    => /\ e.result = "False"
       /\ SeatsIn(After(i), e.wsck) = SeatsIn(e.before, e.wsck)
       /\ KeysIn(After(i), e.user) = KeysIn(e.before, e.user)

\* C7 witness: such an unregister call has been made.
C7_Witness ==
  \E i \in 1..Len(log) :
    /\ log[i].op = "unregister"
    /\ log[i].before.conferences[log[i].wsck].exists
    /\ ~Contains(KeysIn(log[i].before, log[i].user), log[i].wsck)

\* C8: after any sequence of createConference, register and unregister calls
\* every stored conference has 0 <= seatsAvailable <= maxAttendees.
C8_SeatsWithinBounds ==
  \A k \in ConfKeys :
    conferences[k].exists =>
      /\ 0 <= conferences[k].seatsAvailable
      /\ conferences[k].seatsAvailable <= conferences[k].maxAttendees

\* C9: in every reachable state, also with concurrent register calls of one
\* profile for one conference, a profile's conferenceKeysToAttend holds a
\* conference key at most once.
C9_KeysAtMostOnce ==
  \A p \in Profiles, k \in ConfKeys :
    Count(profiles[p].conferenceKeysToAttend, k) <= 1

\* C9 witness: two register transactions of the same profile for the same
\* conference have both passed the already-registered check, and one of them
\* has committed.
C9_Witness ==
  \E r \in DOMAIN req :
    /\ req[r].pc = "commit" /\ req[r].reg /\ req[r].stale
    /\ Contains(profiles[req[r].user].conferenceKeysToAttend, req[r].wsck)

\* the four calls of the registration scenario start at log[i]
ScenarioAt(i) ==
  /\ log[i].op = "register" /\ log[i+1].op = "register"
  /\ log[i+2].op = "unregister" /\ log[i+3].op = "register"
  /\ \A j \in 1..3 : log[i+j].wsck = log[i].wsck
  /\ log[i+2].user = log[i].user /\ log[i+3].user = log[i+1].user
  /\ log[i+1].user # log[i].user
  /\ log[i].before.conferences[log[i].wsck].exists
  /\ log[i].before.conferences[log[i].wsck].maxAttendees = 1
  /\ SeatsIn(log[i].before, log[i].wsck) = 1
  /\ AttendeesIn(log[i].before, log[i].wsck) = {}

\* C10: on a conference with maxAttendees = 1, seatsAvailable = 1 and nobody
\* registered, the calls P registers, Q registers, P unregisters, Q registers
\* (P # Q) give: true and seatsAvailable 0; 'no seats available' and the store
\* unchanged; true, seatsAvailable 1 and the key out of P's list; true,
\* seatsAvailable 0 and the key in Q's list.
C10_Scenario ==
  \A i \in 1..(Len(log) - 3) :
    ScenarioAt(i) =>
      LET k == log[i].wsck
          P == log[i].user
          Q == log[i+1].user IN
      /\ log[i].result = "True" /\ SeatsIn(After(i), k) = 0
      /\ log[i+1].result = "NoSeats" /\ After(i+1) = After(i)
      /\ log[i+2].result = "True" /\ SeatsIn(After(i+2), k) = 1
      /\ ~Contains(KeysIn(After(i+2), P), k)
      /\ log[i+3].result = "True" /\ SeatsIn(After(i+3), k) = 0
      /\ Contains(KeysIn(After(i+3), Q), k)

\* C10 witness: the four calls of the scenario have been made.
C10_Witness ==
  \E i \in 1..(Len(log) - 3) : ScenarioAt(i)

\* C11: a registration transaction whose commit hits a write conflict of the
\* store is retried automatically; when the retries are used up the caller
\* receives a ConflictException (the error of 'already registered' and of 'no
\* seats available'), and the failed attempt leaves no write behind.
C11_ExhaustedIsConflict ==
  [][\A r \in DOMAIN req :
       (req[r].pc = "commit" /\ CommitConflict(req[r]) /\ req'[r] # req[r]) =>
          /\ profiles' = profiles
          /\ conferences' = conferences
          /\ IF req[r].attempt < Retries
             THEN req'[r] = Attempt(req[r].user, req[r].wsck, req[r].reg,
                                    req[r].attempt + 1)
             ELSE /\ req'[r].pc = "done"
                  /\ req'[r].result \in {"AlreadyRegistered", "NoSeats"}]_vars

\* the filters sent with the last call, and the positions of those with an
\* operator other than EQ
Sent == call.filters
NonEquality(filters) == {i \in 1..Len(filters) : filters[i].operator # "EQ"}
NonEqualityFields(filters, upto) ==
  {filters[i].field : i \in {j \in NonEquality(filters) : j <= upto}}
InvalidFilterMessage == "Filter contains invalid field or operator."
OneFieldMessage == "Inequality filter is allowed on only one field."

\* C12: _formatFilters fails whenever two distinct fields carry a non-equality
\* operator, wherever in the list they stand and whatever equality filters lie
\* between them (with the one-field error when every token is known), and every
\* list that compiles has non-equality operators on at most one field.
C12_OneInequalityField ==
  (call.op = "_getQuery" /\ outcome # NoCall) =>
     /\ Cardinality(NonEqualityFields(Sent, Len(Sent))) > 1 =>
          /\ outcome.raised = "BadRequestException"
          /\ (\A i \in 1..Len(Sent) :
                /\ Sent[i].field \in {"CITY", "TOPIC", "MONTH", "MAX_ATTENDEES"}
                /\ Sent[i].operator \in {"EQ", "GT", "GTEQ", "LT", "LTEQ", "NE"})
             => outcome.message = OneFieldMessage
     /\ outcome.raised = "" =>
          Cardinality({outcome.filters[i].field :
                         i \in {j \in 1..Len(outcome.filters) :
                                  outcome.filters[j].operator # "="}}) <= 1

\* C12 witness: the first and the third filter carry inequalities on two
\* fields, an equality filter lies between them, and the call failed.
C12_Witness ==
  /\ call.op = "_getQuery" /\ outcome # NoCall /\ Len(Sent) = 3
  /\ NonEquality(Sent) = {1, 3}
  /\ Sent[1].field = "MONTH" /\ Sent[3].field = "CITY"
  /\ Sent[2].field = "TOPIC"
  /\ outcome.raised = "BadRequestException"
  /\ outcome.message = OneFieldMessage

\* C13: the ordering of a compiled query is [the inequality field, name] when
\* some filter has a non-equality operator, and [name] otherwise.
C13_Ordering ==
  (call.op = "_getQuery" /\ outcome # NoCall /\ outcome.raised = "") =>
     LET unequal == {i \in 1..Len(outcome.filters) :
                       outcome.filters[i].operator # "="}
     IN IF unequal = {} THEN outcome.orders = <<"name">>
        ELSE \A i \in unequal :
               outcome.orders = <<outcome.filters[i].field, "name">>

\* C13 witness: a query compiled from three filters whose last two carry
\* inequalities on the month.
C13_Witness ==
  /\ call.op = "_getQuery" /\ outcome # NoCall /\ outcome.raised = ""
  /\ Len(Sent) = 3 /\ NonEquality(Sent) = {2, 3}
  /\ outcome.orders = <<"month", "name">>

\* the positions of the filters whose field or operator token is not one of
\* those the spec lists
Unrecognized(filters) ==
  {i \in 1..Len(filters) :
     \/ filters[i].field \notin {"CITY", "TOPIC", "MONTH", "MAX_ATTENDEES"}
     \/ filters[i].operator \notin {"EQ", "GT", "GTEQ", "LT", "LTEQ", "NE"}}

\* C14 as the spec states it: a filter list with an unrecognized field or
\* operator token at any position fails with the invalid-filter error and
\* produces no query.
C14_InvalidFilterAnywhere ==
  (call.op = "_getQuery" /\ outcome # NoCall /\ Unrecognized(Sent) # {}) =>
     /\ outcome.raised = "BadRequestException"
     /\ outcome.message = InvalidFilterMessage

\* C14, amended: a filter list with an unrecognized token at any position
\* produces no query and fails with a BadRequestException; it is the
\* invalid-filter error unless the filters before the first unrecognized one
\* carry non-equality operators on two fields, which raises the one-field
\* error first.
C14_FirstErrorWins ==
  (call.op = "_getQuery" /\ outcome # NoCall /\ Unrecognized(Sent) # {}) =>
     LET first == CHOOSE i \in Unrecognized(Sent) :
                    \A j \in Unrecognized(Sent) : i <= j
     IN /\ outcome.raised = "BadRequestException"
        /\ outcome.message =
             IF Cardinality(NonEqualityFields(Sent, first - 1)) > 1
             THEN OneFieldMessage ELSE InvalidFilterMessage

\* C14 witness: the only unrecognized token is the operator of the last of
\* three filters, and the call failed with the invalid-filter error.
C14_Witness ==
  /\ call.op = "_getQuery" /\ outcome # NoCall
  /\ Unrecognized(Sent) = {3}
  /\ Sent[3].field = "CITY"
  /\ outcome.raised = "BadRequestException"
  /\ outcome.message = InvalidFilterMessage

\* C15: a value of the month or maxAttendees field that does not parse as an
\* integer makes the compilation fail with a validation error of the kind of
\* the other invalid filters (a BadRequestException); a value that parses is
\* carried in the query as that integer. (Of ValueStrings only "12" parses.)
C15_TypeMismatch ==
  (call.op = "_getQuery" /\ outcome # NoCall) =>
     /\ (\E i \in 1..Len(Sent) :
           /\ Sent[i].field \in {"MONTH", "MAX_ATTENDEES"}
           /\ Sent[i].value # <<"1", "2">>)
        => outcome.raised = "BadRequestException"
     /\ outcome.raised = "" =>
          \A i \in 1..Len(Sent) :
            Sent[i].field \in {"MONTH", "MAX_ATTENDEES"}
               => outcome.filters[i].value = 12

\* the keys a query on Session yields, and the keys of a returned list
KeyResult(q) ==
  {SessionKey(sessions, i) : i \in {j \in 1..Len(sessions) : Matches(sessions, q, j)}}
KeysOf(entities) == [i \in 1..Len(entities) |-> entities[i].key]

\* C16: _intersectQueries returns exactly the entities whose keys are in the
\* key results of both queries: none from outside the intersection, none of
\* the intersection missing, none twice.
C16_Intersection ==
  (call.op = "_intersectQueries" /\ outcome # NoCall) =>
     LET keys == KeysOf(outcome.entities)
         both == KeyResult(call.q1) \cap KeyResult(call.q2)
     IN /\ \A i \in 1..Len(keys) : keys[i] \in both
        /\ \A k \in both : \E i \in 1..Len(keys) : keys[i] = k
        /\ \A i, j \in 1..Len(keys) : i # j => keys[i] # keys[j]
        /\ \A i \in 1..Len(keys) : outcome.entities[i] = SessionEntity(sessions, keys[i])

\* C16 witness: one session was returned while each query alone yields a
\* session the other does not.
C16_Witness ==
  /\ call.op = "_intersectQueries" /\ outcome # NoCall
  /\ Len(outcome.entities) = 1
  /\ KeyResult(call.q1) \ KeyResult(call.q2) # {}
  /\ KeyResult(call.q2) \ KeyResult(call.q1) # {}

\* C17: intersecting a query with itself returns the query's own result set,
\* and intersecting any query with one that yields no key, in either
\* position, returns an empty list and raises nothing.
C17_SelfAndEmpty ==
  (call.op = "_intersectQueries" /\ outcome # NoCall) =>
     /\ call.q1 = call.q2 =>
          /\ ToSet(KeysOf(outcome.entities)) = KeyResult(call.q1)
          /\ Len(outcome.entities) = Cardinality(KeyResult(call.q1))
     /\ (KeyResult(call.q1) = {} \/ KeyResult(call.q2) = {}) =>
          /\ outcome.raised = ""
          /\ outcome.entities = <<>>

\* C17 witness: the first query yields two sessions, the second one none, and
\* the call returned the empty list.
C17_Witness ==
  /\ call.op = "_intersectQueries" /\ outcome # NoCall
  /\ Cardinality(KeyResult(call.q1)) = 2
  /\ KeyResult(call.q2) = {}
  /\ outcome.raised = "" /\ outcome.entities = <<>>

\* the sessions of conference c that list speaker sp
\* the featured speakers of a conference as getFeaturedSpeaker reports them
Featured(cache, conf) == json_loads(getFeaturedSpeaker(cache, conf).data)

SessionsOf(sp, c) ==
  {i \in 1..Len(sessions) :
     sessions[i].conf = c /\ Contains(sessions[i].speakers, sp)}

\* C18: in every state without a pending featured-speaker task (and without
\* an expired cache entry) that session creations and add/remove-speaker
\* calls reach when the tasks of each ran before the next change, a speaker
\* has an entry in a conference's cached map exactly when the speaker is
\* listed by more than one session of that conference.
C18_CacheMatchesSessions ==
  taskqueue = <<>> =>
     \A c \in SessionConfKeys, sp \in Speakers :
        sp \in DOMAIN Featured(memcache, c)
           <=> Cardinality(SessionsOf(sp, c)) > 1

\* C20: after a speaker has been added to a session so that exactly two
\* sessions of the conference list the speaker, the completion of the
\* featured-speaker task that this add enqueued leaves the conference's cached
\* map holding the speaker with the speaker's name and a session mapping of
\* exactly those two sessions.
C20_TwoSessionsFeatured ==
  [][\A i \in 1..Len(taskqueue) :
       LET c == taskqueue[i].conf_wsk
           sp == CHOOSE k \in DOMAIN json_loads(taskqueue[i].schedule) : TRUE
           two == {SessionKey(sessions, j) : j \in SessionsOf(sp, c)}
           featured == Featured(memcache', c)
       IN (/\ taskqueue' = Without(taskqueue, i)
           /\ IsJson(taskqueue[i].schedule)
           /\ Cardinality(SessionsOf(sp, c)) = 2)
          => /\ sp \in DOMAIN featured
             /\ featured[sp].name = speakers[sp].name
             /\ DOMAIN featured[sp].sessions = two
             /\ \A k \in two : featured[sp].sessions[k] = sessions[k[2]].name]_vars

\* C20 witness: no task is pending, both conferences have sessions, the
\* second speaker was added to sessions and is listed by exactly two of one
\* conference, and that conference's cached map holds the speaker with those
\* two sessions.
C20_Witness ==
  /\ taskqueue = <<>>
  /\ \E i, j \in 1..Len(sessions) : sessions[i].conf # sessions[j].conf
  /\ \E c \in SessionConfKeys :
       /\ Cardinality(SessionsOf(2, c)) = 2
       /\ \E i \in SessionsOf(2, c) : sessions[i].speakers = <<1, 2>>
       /\ 2 \in DOMAIN Featured(memcache, c)
       /\ DOMAIN Featured(memcache, c)[2].sessions =
            {SessionKey(sessions, j) : j \in SessionsOf(2, c)}

\* C19: when several featured-speaker tasks of one conference and speaker are
\* pending and the queue runs them in any order, then once all of them have
\* completed the speaker is in the conference's cached map exactly when the
\* speaker is currently listed by at least two sessions of the conference.
C19_Converges ==
  Len(taskqueue) = 0 =>
     \A c \in SessionConfKeys, sp \in Speakers :
        Cardinality(SessionsOf(sp, c)) >= 2
           <=> sp \in DOMAIN Featured(memcache, c)

\* C21: after a speaker who is in a conference's cached map with two sessions
\* has been removed from one of them, the completion of the task that this
\* removal enqueued leaves the speaker without an entry in that conference's
\* map; when no other speaker was in the map the cache key is deleted, and no
\* cache key holds an empty map.
C21_RemovedSpeakerLeaves ==
  [][\A i \in 1..Len(taskqueue) :
       LET c == taskqueue[i].conf_wsk
           sp == CHOOSE k \in DOMAIN json_loads(taskqueue[i].schedule) : TRUE
           before == Featured(memcache, c)
       IN (/\ taskqueue' = Without(taskqueue, i)
           /\ IsJson(taskqueue[i].schedule)
           /\ Cardinality(SessionsOf(sp, c)) = 1
           /\ sp \in DOMAIN before
           /\ Cardinality(DOMAIN before[sp].sessions) = 2)
          => /\ sp \notin DOMAIN Featured(memcache', c)
             /\ DOMAIN before = {sp} => c \notin DOMAIN memcache'
             /\ \A k \in DOMAIN memcache' : json_loads(memcache'[k]) # EmptyDict]_vars

\* C21 witness: the first speaker is the only one in a conference's cached
\* map, with two sessions, has been removed from one of them, and the task of
\* that removal is pending.
C21_Witness ==
  /\ Len(taskqueue) = 1
  /\ IsJson(taskqueue[1].schedule)
  /\ DOMAIN json_loads(taskqueue[1].schedule) = {1}
  /\ Cardinality(SessionsOf(1, taskqueue[1].conf_wsk)) = 1
  /\ DOMAIN Featured(memcache, taskqueue[1].conf_wsk) = {1}
  /\ Cardinality(DOMAIN Featured(memcache, taskqueue[1].conf_wsk)[1].sessions) = 2

\* C22: the schedule computed for a speaker and a conference lists exactly the
\* sessions of that conference which list the speaker, so the speaker counts
\* as featured there exactly when two or more sessions of that conference list
\* the speaker; and once every task has run, a conference's cached map holds
\* no speaker whom fewer than two of its own sessions list, however many
\* sessions of other conferences list the speaker.
C22_CountsOwnConference ==
  \A sp \in Speakers, c \in SessionConfKeys :
     LET schedule == getSpeakerSchedule(sessions, sp, c)
     IN /\ DOMAIN schedule[sp].sessions
             = {SessionKey(sessions, j) : j \in SessionsOf(sp, c)}
        /\ IsFeatured(schedule, sp) <=> Cardinality(SessionsOf(sp, c)) >= 2
        /\ (taskqueue = <<>> /\ sp \in DOMAIN Featured(memcache, c))
              => Cardinality(SessionsOf(sp, c)) >= 2

\* C22 witness: two sessions of the first conference and one of the second
\* list the first speaker, every task has run, and the speaker is in the
\* first conference's cached map only.
C22_Witness ==
  /\ taskqueue = <<>>
  /\ Cardinality(SessionsOf(1, <<1, 1>>)) = 2
  /\ Cardinality(SessionsOf(1, <<1, 2>>)) = 1
  /\ 1 \in DOMAIN Featured(memcache, <<1, 1>>)
  /\ 1 \notin DOMAIN Featured(memcache, <<1, 2>>)

\* C23: a call of getFeaturedSpeaker answers with the cached text of the
\* conference exactly as it is stored when the cache key is present, and with
\* the empty map when the key is absent or has expired; the call leaves the
\* cache, the task queue, the sessions and every other stored entity as they
\* were, and nothing but this call produces such an answer.
C23_ReadOnly ==
  [][(call' # call \/ outcome' # outcome) =>
       /\ call'.op = "getFeaturedSpeaker"
       /\ outcome'.data = IF call'.websafeKey \in DOMAIN memcache
                          THEN memcache[call'.websafeKey]
                          ELSE json_dumps(EmptyDict)
       /\ UNCHANGED <<speakerVars, ledgerVars>>]_vars

\* C23 witness: the last call read the first conference, which has a cached
\* map, and was answered with the text stored under its key.
C23_Witness ==
  /\ call = [op |-> "getFeaturedSpeaker", websafeKey |-> <<1, 1>>]
  /\ <<1, 1>> \in DOMAIN memcache
  /\ outcome = StringMessage(memcache[<<1, 1>>])

\* C24: whatever createWishlist, addSessionToWishlist and
\* deleteSessionInWishlist calls have been made, no profile has two Wishlist
\* entries that refer to the same session.
C24_OneEntryPerSession ==
  \A u \in Clients, k \in WishSessions :
     Cardinality({i \in 1..Len(wishlists) : wishlists[i] = Wish(u, k)}) <= 1

\* C27: a createConference call that names the conference, carries a
\* maxAttendees above zero and carries no seatsAvailable stores the conference
\* with seatsAvailable equal to maxAttendees.
C27_SeatsDefaultToMax ==
  [][\A u \in Profiles, rq \in ConferenceRequests :
       (/\ createConference(u, rq, LogLen)
        /\ rq.name
        /\ rq.seatsAvailable = None
        /\ rq.maxAttendees # None /\ ValueOf(rq.maxAttendees) > 0)
       => conferences'[<<u, AllocateId(u)>>].seatsAvailable
             = ValueOf(rq.maxAttendees)]_vars

SeatsInRange(conf) == 0 <= conf.seatsAvailable /\ conf.seatsAvailable <= conf.maxAttendees

\* C25: an updateConference call on a conference whose seatsAvailable lies
\* between 0 and maxAttendees leaves that conference with a seatsAvailable
\* between 0 and its maxAttendees, whichever fields the request carries.  A
\* step is such a call when it changes a stored conference and no profile.
C25_UpdateKeepsSeatsInRange ==
  [][\A k \in ConfKeys :
       (/\ conferences[k].exists
        /\ conferences'[k] # conferences[k]
        /\ profiles' = profiles
        /\ SeatsInRange(conferences[k]))
          => SeatsInRange(conferences'[k])]_vars

\* C28: every stored conference has the month of its startDate as its month,
\* and month 0 when it has no startDate.
C28_MonthOfStartDate ==
  \A k \in ConfKeys :
     conferences[k].exists =>
        conferences[k].month = IF conferences[k].startDate = None THEN 0
                               ELSE ValueOf(conferences[k].startDate).month

\* C26: once every task has run, the cached entry of a speaker lists exactly
\* the sessions of that conference which list the speaker now.
C26_CachedEntryCurrent ==
  taskqueue = <<>> =>
     \A c \in SessionConfKeys, sp \in Speakers :
        sp \in DOMAIN Featured(memcache, c) =>
           DOMAIN Featured(memcache, c)[sp].sessions
              = {SessionKey(sessions, j) : j \in SessionsOf(sp, c)}

\* C30: the speakers list of every session holds each speaker at most once.
C30_SpeakersAtMostOnce ==
  \A i \in 1..Len(sessions), sp \in Speakers :
     Count(sessions[i].speakers, sp) <= 1

\* C29: a registerForConference or unregisterFromConference call changes, of
\* everything stored, at most the seatsAvailable of the conference it names
\* and the conferenceKeysToAttend of the caller's profile (which it creates
\* when the caller has none): every other field of that conference, every
\* other conference, every other profile, the sessions, the speakers, the
\* wishlists, the cache and the task queue stay as they were.
C29_RegistrationFrame ==
  [][(profiles' # profiles \/ conferences' # conferences) =>
       \E u \in Profiles, k \in SessionConfKeys :
          /\ \A u2 \in Profiles \ {u} : profiles'[u2] = profiles[u2]
          /\ \A k2 \in SessionConfKeys \ {k} : conferences'[k2] = conferences[k2]
          /\ conferences'[k] =
                [conferences[k] EXCEPT !.seatsAvailable = conferences'[k].seatsAvailable]
          /\ profiles'[u] =
                [getProfileFromUser(profiles[u]) EXCEPT
                   !.conferenceKeysToAttend = profiles'[u].conferenceKeysToAttend]
          /\ \A k2 \in SessionConfKeys \ {k} :
                Count(profiles'[u].conferenceKeysToAttend, k2)
                   = Count(profiles[u].conferenceKeysToAttend, k2)
          /\ UNCHANGED speakerVars]_vars

\* C29 witness: the first profile is registered for the first conference, which
\* has a start date and a seat taken, and the second profile for the second
\* conference.
C29_Witness ==
  /\ profiles[1].conferenceKeysToAttend = << <<1, 1>> >>
  /\ profiles[2].conferenceKeysToAttend = << <<1, 2>> >>
  /\ conferences[<<1, 1>>].startDate # None
  /\ conferences[<<1, 1>>].seatsAvailable = conferences[<<1, 1>>].maxAttendees - 1
  /\ conferences[<<1, 2>>].seatsAvailable = conferences[<<1, 2>>].maxAttendees - 1

\* C31: while requests register and unregister concurrently, no step changes,
\* for a stored conference, the sum of its seatsAvailable and the number of
\* profiles whose conferenceKeysToAttend holds its key: a commit writes the
\* profile and the conference together or not at all.
C31_SeatsPlusAttendees ==
  [][\A k \in ConfKeys :
       conferences[k].exists =>
          conferences'[k].seatsAvailable
             + Cardinality({p \in Profiles :
                              Contains(profiles'[p].conferenceKeysToAttend, k)})
          = conferences[k].seatsAvailable + Cardinality(Attendees(k))]_vars

\* C31 witness: two profiles are registered for a conference that has given
\* two seats, while a request on that conference is at a retry after a
\* conflicting commit.
C31_Witness ==
  \E k \in ConfKeys :
     /\ conferences[k].exists
     /\ Cardinality(Attendees(k)) = 2
     /\ conferences[k].seatsAvailable = conferences[k].maxAttendees - 2
     /\ \E r \in DOMAIN req : req[r].wsck = k /\ req[r].attempt > 0

\* the entry of a speaker in a conference's cached map, None when there is none
EntryOf(cache, c, sp) ==
  IF sp \in DOMAIN Featured(cache, c) THEN Some(Featured(cache, c)[sp]) ELSE None

\* C32: when runs of the featured-speaker task overlap, a cache write of a run
\* for one speaker leaves the entry of every other speaker of the conference
\* as it was, so that no other run's upsert or removal is lost to it.
C32_NoLostCacheUpdate ==
  [][\A r \in Requests :
       (req[r].pc = "set" /\ req'[r].pc = "idle") =>
          LET c == req[r].task.conf_wsk
              sp == CHOOSE k \in DOMAIN json_loads(req[r].task.schedule) : TRUE
          IN \A sp2 \in Speakers \ {sp} :
                EntryOf(memcache', c, sp2) = EntryOf(memcache, c, sp2)]_vars

\* C33: when addSpeakerToSession and removeSpeakerFromSession requests on one
\* session overlap, the put of a request for one speaker leaves every other
\* speaker listed by the session exactly when the session listed that speaker
\* before the put, so that no other request's change of the list is
\* overwritten.
C33_NoLostSpeakerUpdate ==
  [][\A r \in Requests :
       (req[r].pc = "put" /\ req'[r].pc = "idle") =>
          LET i == req[r].task.websafeSessionKey
          IN \A sp2 \in Speakers \ {req[r].task.websafeSpeakerKey} :
                Contains(sessions'[i].speakers, sp2)
                   <=> Contains(sessions[i].speakers, sp2)]_vars

\* C34: when a featured-speaker task has run, running _updateFeaturedSpeakers
\* once more with the same conference and the same schedule leaves every
\* cache key present or absent as it is, with the same map.
C34_JobIdempotent ==
  [][\A i \in 1..Len(taskqueue) :
       taskqueue' = Without(taskqueue, i) =>
          updateFeaturedSpeakers(memcache', taskqueue[i].conf_wsk,
                                 taskqueue[i].schedule).memcache = memcache']_vars

\* C34 witness: the task that waits will add the second speaker to the map
\* of a conference which already holds the first speaker.
C34_Witness ==
  /\ Len(taskqueue) = 1
  /\ IsJson(taskqueue[1].schedule)
  /\ DOMAIN json_loads(taskqueue[1].schedule) = {2}
  /\ IsFeatured(json_loads(taskqueue[1].schedule), 2)
  /\ DOMAIN Featured(memcache, taskqueue[1].conf_wsk) = {1}

\* C35: a run of a featured-speaker task for a conference and a speaker leaves
\* the cache key of every other conference as it was (present with the same
\* text, or absent) and leaves the entry of every other speaker in the
\* conference's map as it was (same name, same sessions).
C35_JobFrame ==
  [][\A i \in 1..Len(taskqueue) :
       taskqueue' = Without(taskqueue, i) =>
          LET c == taskqueue[i].conf_wsk
          IN /\ \A c2 \in SessionConfKeys \ {c} :
                   /\ c2 \in DOMAIN memcache' <=> c2 \in DOMAIN memcache
                   /\ c2 \in DOMAIN memcache => memcache'[c2] = memcache[c2]
             /\ IF IsJson(taskqueue[i].schedule)
                THEN LET sp == CHOOSE k \in DOMAIN json_loads(taskqueue[i].schedule) : TRUE
                     IN \A sp2 \in Speakers \ {sp} :
                           EntryOf(memcache', c, sp2) = EntryOf(memcache, c, sp2)
                ELSE memcache' = memcache]_vars

\* C35 witness: every task has run, the map of the first conference holds
\* both speakers and the second conference has a cached map too.
C35_Witness ==
  /\ taskqueue = <<>>
  /\ DOMAIN Featured(memcache, <<1, 1>>) = {1, 2}
  /\ <<1, 2>> \in DOMAIN memcache

\* C36: an addSessionToWishlist or deleteSessionInWishlist call that changes
\* the stored wishlists does not end with an error; a call that ends with an
\* error leaves the wishlists as they were.
C36_ErrorLeavesWishlist ==
  [][(/\ wishlists' # wishlists
      /\ call'.op \in {"addSessionToWishlist", "deleteSessionInWishlist"})
        => outcome'.raised = ""]_vars

=============================================================================
